---------------------------- MODULE Spec2Model ----------------------------
(***************************************************************************)
(* A model of the scan-and-index engine of navidrome: the scanner's        *)
(* metadata-to-MediaFile mapper (scanner/mapping.go), the artist           *)
(* repository (persistence: similar-artists codec, artist index, refresh,  *)
(* purge), the scan command (cmd) and the migration helpers                *)
(* (db/migration/migration.go).                                            *)
(*                                                                         *)
(* Go strings are modelled as sequences of byte codes (ASCII), so that     *)
(* lower-casing, prefix/suffix trimming, splitting and percent-encoding    *)
(* are computed the way the code computes them.                            *)
(***************************************************************************)
EXTENDS Integers, Sequences, FiniteSets, TLC

VARIABLES
    rootFolder,     \* mediaFileMapper.rootFolder
    tracks,         \* the last two tracks mapped: <<[md, mf], ...>>
    codecPc,        \* "model": an artist to Put; "stored": a row; "loaded": read back
    similar,        \* model.Artist.SimilarArtists handed to Put: <<[ID, Name], ...>>
    dbSimilar,      \* dbArtist.SimilarArtists, the stored column
    loaded,         \* model.Artist.SimilarArtists as Get returns it
    putByRepo,      \* whether the stored column was written by Put
    indexGroups,    \* artistRepository.indexGroups: prefix -> bucket key
    artistRows,     \* the artist rows GetIndex reads: {[Name, OrderArtistName]}
    indexes,        \* what the last two calls of GetIndex returned
    fullRescan,     \* cmd: the --full flag of the running scan command
    scanPc,         \* cmd: where runScanner stands
    rescanErr,      \* cmd: whether RescanAll returned an error
    scanLog,        \* cmd: the lines the running scan command has logged
    scanRuns,       \* cmd: the scan commands that have ended: <<[full, err, log, failed]>>
    once,           \* migration: whether the sync.Once has run its function
    setupDone,      \* migration: whether the property table holds the setup flag
    migrationPc,    \* migration: "running", or "panicked" after checkErr
    calls,          \* migration: what each call of isDBInitialized returned
    notices,        \* migration: the messages notice was called with
    printed,        \* migration: the messages notice printed
    album,          \* the album table: {[id, album_artist_id]}
    artist,         \* the artist table: id -> [album_count]
    refreshPc,      \* Refresh: "idle", "chunks" (in its loop) or "returned"
    refreshIds,     \* Refresh: the ids it was called with
    chunkNo,        \* Refresh: the chunk its loop is at
    attempted,      \* Refresh: the chunks handed to refresh so far
    refreshErr,     \* Refresh: whether Refresh returned an error
    failedChunk,    \* Refresh: the chunk whose refresh failed, 0 if none
    committed,      \* Refresh: the ids Put by the chunks that succeeded
    lastOp,         \* the repository call that ended last
    purgeErr,       \* purgeEmpty: whether it returned an error
    beforePurge     \* purgeEmpty: the artist table as the last call found it

mapperVars == <<rootFolder, tracks>>
codecVars == <<codecPc, similar, dbSimilar, loaded, putByRepo>>
indexVars == <<indexGroups, artistRows, indexes>>
scanVars == <<fullRescan, scanPc, rescanErr, scanLog, scanRuns>>
migrationVars == <<once, setupDone, migrationPc, calls, notices, printed>>
refreshVars == <<refreshPc, refreshIds, chunkNo, attempted, refreshErr, failedChunk, committed>>
storeVars == <<album, artist, refreshVars, lastOp, purgeErr, beforePurge>>

\* What the actions of one component leave alone: the other components
notMapper == <<codecVars, indexVars, scanVars, migrationVars, storeVars>>
notCodec == <<mapperVars, indexVars, scanVars, migrationVars, storeVars>>
notIndex == <<mapperVars, codecVars, scanVars, migrationVars, storeVars>>
notScan == <<mapperVars, codecVars, indexVars, migrationVars, storeVars>>
notMigration == <<mapperVars, codecVars, indexVars, scanVars, storeVars>>
notStore == <<mapperVars, codecVars, indexVars, scanVars, migrationVars>>

(***************************************************************************)
(* Strings                                                                 *)
(***************************************************************************)

\* The byte codes of the characters the model names.
Ch == [slash |-> 47, dot |-> 46, colon |-> 58, semi |-> 59, percent |-> 37,
       plus |-> 43, space |-> 32, backslash |-> 92, dash |-> 45,
       underscore |-> 95, tilde |-> 126, hash |-> 35]

\* strings.ToLower, on ASCII
ToLower(s) == [i \in 1..Len(s) |-> IF s[i] \in 65..90 THEN s[i] + 32 ELSE s[i]]

\* strings.HasPrefix
HasPrefix(s, p) == Len(p) <= Len(s) /\ SubSeq(s, 1, Len(p)) = p

\* strings.HasSuffix
HasSuffix(s, p) == Len(p) <= Len(s) /\ SubSeq(s, Len(s) - Len(p) + 1, Len(s)) = p

\* strings.TrimPrefix
TrimPrefix(s, p) == IF HasPrefix(s, p) THEN SubSeq(s, Len(p) + 1, Len(s)) ELSE s

\* strings.TrimSuffix
TrimSuffix(s, p) == IF HasSuffix(s, p) THEN SubSeq(s, 1, Len(s) - Len(p)) ELSE s

\* filepath.Ext: the suffix beginning at the final dot in the final element
\* of path; empty if there is no dot.
Ext(path) ==
    LET dots == {i \in 1..Len(path) :
                    /\ path[i] = Ch.dot
                    /\ \A j \in i..Len(path) : path[j] # Ch.slash
                    /\ \A j \in (i+1)..Len(path) : path[j] # Ch.dot}
    IN  IF dots = {} THEN <<>>
        ELSE LET i == CHOOSE d \in dots : TRUE IN SubSeq(path, i, Len(path))

\* All strings over alphabet of length at most n.
RECURSIVE StringsUpTo(_, _)
StringsUpTo(alphabet, n) ==
    IF n = 0 THEN {<<>>}
    ELSE LET shorter == StringsUpTo(alphabet, n - 1)
         IN  shorter \cup {Append(s, c) : s \in shorter, c \in alphabet}

(***************************************************************************)
(* scanner/mapping.go: mediaFileMapper                                     *)
(***************************************************************************)

\* consts.VariousArtists = "Various Artists"
VariousArtists == <<86,97,114,105,111,117,115,32,65,114,116,105,115,116,115>>
\* consts.UnknownArtist = "Unknown Artist"
UnknownArtist == <<85,110,107,110,111,119,110,32,65,114,116,105,115,116>>
\* "[Unknown Album]"
UnknownAlbum == <<91,85,110,107,110,111,119,110,32,65,108,98,117,109,93>>

\* fmt.Sprintf("%x", md5.Sum(b)): a digest, modelled as an injective tag of
\* its input (collision freedom is the only property of MD5 relied upon).
Md5Hex(b) == <<"md5", b>>

\* The last element of path (filepath.Base of a path that names a file).
BaseName(path) ==
    LET seps == {i \in 1..Len(path) : path[i] = Ch.slash}
        last == IF seps = {} THEN 0 ELSE CHOOSE i \in seps : \A j \in seps : j <= i
    IN  SubSeq(path, last + 1, Len(path))

\* A plausible slip: the title is taken to be the bare file name.
mapTrackTitleBaseName(root, md) ==
    IF md.title = <<>>
    THEN TrimSuffix(BaseName(md.filePath), Ext(md.filePath))
    ELSE md.title

mapTrackTitle(root, md) ==
    IF md.title = <<>>
    THEN LET s == TrimPrefix(md.filePath, root \o <<Ch.slash>>)
             e == Ext(s)
         IN  TrimSuffix(s, e)
    ELSE md.title

\* A plausible slip: the album-artist tag wins over the compilation flag.
mapAlbumArtistNameTagFirst(md) ==
    CASE md.albumArtist # <<>> -> md.albumArtist
      [] md.compilation -> VariousArtists
      [] md.artist # <<>> -> md.artist
      [] OTHER -> UnknownArtist

mapAlbumArtistName(md) ==
    CASE md.compilation -> VariousArtists
      [] md.albumArtist # <<>> -> md.albumArtist
      [] md.artist # <<>> -> md.artist
      [] OTHER -> UnknownArtist

mapArtistName(md) == IF md.artist # <<>> THEN md.artist ELSE UnknownArtist

mapAlbumName(md) == IF md.album = <<>> THEN UnknownAlbum ELSE md.album

trackID(md) == Md5Hex(md.filePath)

\* A plausible slip: the album key is hashed without lower-casing it.
albumIDCaseSensitive(md) ==
    Md5Hex(mapAlbumArtistName(md) \o <<Ch.backslash>> \o mapAlbumName(md))

albumID(md) ==
    Md5Hex(ToLower(mapAlbumArtistName(md) \o <<Ch.backslash>> \o mapAlbumName(md)))

artistID(md) == Md5Hex(ToLower(mapArtistName(md)))

albumArtistID(md) == Md5Hex(ToLower(mapAlbumArtistName(md)))

toMediaFile(root, md) ==
    [ID            |-> trackID(md),
     Title         |-> mapTrackTitle(root, md),
     AlbumID       |-> albumID(md),
     Album         |-> mapAlbumName(md),
     ArtistID      |-> artistID(md),
     Artist        |-> mapArtistName(md),
     AlbumArtistID |-> albumArtistID(md),
     AlbumArtist   |-> mapAlbumArtistName(md),
     Compilation   |-> md.compilation,
     Path          |-> md.filePath]

(***************************************************************************)
(* persistence: the similar-artists column of dbArtist                     *)
(***************************************************************************)

\* strings.Split(s, sep) for a one-byte separator: the pieces between the
\* separators, one more than there are separators.
RECURSIVE Split(_, _)
Split(s, sep) ==
    LET hits == {i \in 1..Len(s) : s[i] = sep} IN
    IF hits = {} THEN <<s>>
    ELSE LET i == CHOOSE h \in hits : \A g \in hits : h <= g
         IN  <<SubSeq(s, 1, i - 1)>> \o Split(SubSeq(s, i + 1, Len(s)), sep)

\* strings.Join(a, sep)
RECURSIVE Join(_, _)
Join(a, sep) ==
    IF a = <<>> THEN <<>>
    ELSE IF Len(a) = 1 THEN a[1]
    ELSE a[1] \o sep \o Join(Tail(a), sep)

\* net/url ishex, unhex and the upper-case hex digits QueryEscape writes
IsHex(c) == c \in 48..57 \/ c \in 97..102 \/ c \in 65..70
UnHex(c) == IF c \in 48..57 THEN c - 48
            ELSE IF c \in 97..102 THEN c - 97 + 10 ELSE c - 65 + 10
UpperHex(n) == IF n < 10 THEN 48 + n ELSE 65 + n - 10

\* net/url shouldEscape(c, encodeQueryComponent): everything but letters,
\* digits and - _ . ~
ShouldEscape(c) ==
    ~(c \in 97..122 \/ c \in 65..90 \/ c \in 48..57
        \/ c \in {Ch.dash, Ch.underscore, Ch.dot, Ch.tilde})

\* url.QueryEscape
RECURSIVE QueryEscape(_)
QueryEscape(s) ==
    IF s = <<>> THEN <<>>
    ELSE LET c == Head(s) IN
         (IF ~ShouldEscape(c) THEN <<c>>
          ELSE IF c = Ch.space THEN <<Ch.plus>>
          ELSE <<Ch.percent, UpperHex(c \div 16), UpperHex(c % 16)>>)
            \o QueryEscape(Tail(s))

\* url.QueryUnescape: [err, val]; a '%' not followed by two hex digits is an
\* error, and the value returned with an error is "".
RECURSIVE QueryUnescape(_)
QueryUnescape(s) ==
    IF s = <<>> THEN [err |-> FALSE, val |-> <<>>]
    ELSE IF Head(s) = Ch.percent
    THEN IF Len(s) < 3 \/ ~IsHex(s[2]) \/ ~IsHex(s[3])
         THEN [err |-> TRUE, val |-> <<>>]
         ELSE LET rest == QueryUnescape(SubSeq(s, 4, Len(s))) IN
              IF rest.err THEN rest
              ELSE [err |-> FALSE,
                    val |-> <<UnHex(s[2]) * 16 + UnHex(s[3])>> \o rest.val]
    ELSE LET rest == QueryUnescape(Tail(s)) IN
         IF rest.err THEN rest
         ELSE [err |-> FALSE,
               val |-> <<IF Head(s) = Ch.plus THEN Ch.space ELSE Head(s)>> \o rest.val]

\* A plausible slip: the entry is split on its first ':' only
\* (strings.SplitN(s, ":", 2)).
toModelEntryFirstColon(s) ==
    LET fields == Split(s, Ch.colon) IN
    IF Len(fields) < 2 THEN <<>>
    ELSE <<[ID |-> fields[1],
            Name |-> QueryUnescape(SubSeq(s, Len(fields[1]) + 2, Len(s))).val]>>

\* One entry of the stored column, decoded: no pair unless the entry splits
\* into exactly two fields on ':'.
toModelEntry(s) ==
    LET fields == Split(s, Ch.colon) IN
    IF Len(fields) # 2 THEN <<>>
    ELSE <<[ID |-> fields[1], Name |-> QueryUnescape(fields[2]).val]>>

RECURSIVE toModelEntries(_)
toModelEntries(entries) ==
    IF entries = <<>> THEN <<>>
    ELSE toModelEntry(Head(entries)) \o toModelEntries(Tail(entries))

\* artistRepository.toModel: SimilarArtists of the model from the column
toModel(column) == toModelEntries(Split(column, Ch.semi))

\* A plausible slip: the name is written to the column as it is.
fromModelUnescaped(sa) ==
    Join([i \in 1..Len(sa) |-> sa[i].ID \o <<Ch.colon>> \o sa[i].Name], <<Ch.semi>>)

\* artistRepository.fromModel: the column from SimilarArtists of the model
fromModel(sa) ==
    Join([i \in 1..Len(sa) |-> sa[i].ID \o <<Ch.colon>> \o QueryEscape(sa[i].Name)],
         <<Ch.semi>>)

(***************************************************************************)
(* The tracks the scanner hands to the mapper                              *)
(***************************************************************************)

\* Longest generated path below the root folder, in characters.
MaxRelLen == 3

\* "/music"
MusicFolder == <<47,109,117,115,105,99>>

\* Tag values: "Pink Floyd" / "PINK FLOYD", "The Wall" / "the wall",
\* "Roger Waters", and the empty (missing) tag.
AlbumArtistTags == {<<>>, <<80,105,110,107,32,70,108,111,121,100>>,
                    <<80,73,78,75,32,70,76,79,89,68>>}
AlbumTags == {<<84,104,101,32,87,97,108,108>>, <<116,104,101,32,119,97,108,108>>}
ArtistTags == {<<>>, <<82,111,103,101,114,32,87,97,116,101,114,115>>}

\* A relative path the directory walk can yield: no empty element, and no
\* element made of dots alone ("." and "..").
IsRelPath(p) ==
    /\ p # <<>>
    /\ p[1] # Ch.slash /\ p[Len(p)] # Ch.slash
    /\ \A i \in 1..(Len(p) - 1) : ~(p[i] = Ch.slash /\ p[i+1] = Ch.slash)
    /\ \A i \in 1..Len(p) :
          \E j \in 1..Len(p) :
              /\ p[j] \notin {Ch.slash, Ch.dot}
              /\ \A k \in 1..Len(p) :
                    ((i <= k /\ k <= j) \/ (j <= k /\ k <= i)) => (k = i \/ p[k] # Ch.slash)

\* "Unknown/07 track.flac", "a.b/c"
NamedRelPaths ==
    {<<85,110,107,110,111,119,110,47,48,55,32,116,114,97,99,107,46,102,108,97,99>>,
     <<97,46,98,47,99>>}

RelPaths ==
    {p \in StringsUpTo({97, Ch.dot, Ch.slash}, MaxRelLen) : IsRelPath(p)}
        \cup NamedRelPaths

\* Files below the root folder, and one that is not below it.
ScanPaths ==
    {MusicFolder \o <<Ch.slash>> \o p : p \in RelPaths} \cup {<<Ch.slash, 97, Ch.dot, 97>>}

\* The same album in two directories: "/music/a/a.a", "/music/b/a.a"
MergePaths == {MusicFolder \o <<Ch.slash, 97, Ch.slash, 97, Ch.dot, 97>>,
               MusicFolder \o <<Ch.slash, 98, Ch.slash, 97, Ch.dot, 97>>}

\* metadata.Metadata, the fields the mapper resolves names and ids from
MergeInputs ==
    [title : {<<84>>}, artist : ArtistTags, albumArtist : AlbumArtistTags,
     album : AlbumTags, compilation : BOOLEAN, filePath : MergePaths]

\* Untagged files anywhere below the root folder
TitleInputs ==
    [title : {<<>>}, artist : {<<>>}, albumArtist : {<<>>},
     album : {<<>>}, compilation : {FALSE}, filePath : ScanPaths]

MapperInit ==
    /\ rootFolder = MusicFolder
    /\ tracks = <<>>

MapperIdle ==
    /\ rootFolder = <<>>
    /\ tracks = <<>>

\* The scanner maps one more file: toMediaFile(md).  The model keeps the last
\* two tracks mapped.
MapTrack ==
    \E md \in MergeInputs \cup TitleInputs :
        LET t == [md |-> md, mf |-> toMediaFile(rootFolder, md)]
        IN  /\ tracks' = IF Len(tracks) = 2 THEN <<tracks[2], t>> ELSE Append(tracks, t)
            /\ UNCHANGED rootFolder
    /\ UNCHANGED notMapper

MapperNext == MapTrack

(***************************************************************************)
(* Claims about the mapper                                                 *)
(***************************************************************************)

UnderRoot(path) == HasPrefix(path, rootFolder \o <<Ch.slash>>)

RelativeToRoot(path) == SubSeq(path, Len(rootFolder) + 2, Len(path))

\* t is p without the extension of p's last element: p = t \o e, where e is
\* empty and the last element has no dot, or e is that element's final
\* ".xyz".
IsWithoutExt(t, p) ==
    \E k \in 0..Len(p) :
        /\ t = SubSeq(p, 1, k)
        /\ \A j \in (k+2)..Len(p) : p[j] \notin {Ch.dot, Ch.slash}
        /\ IF k = Len(p)
           THEN \A j \in 1..Len(p) :
                    p[j] = Ch.dot => \E i \in j..Len(p) : p[i] = Ch.slash
           ELSE p[k+1] = Ch.dot

\* "Unknown/07 track"
UnknownSlash07Track == <<85,110,107,110,111,119,110,47,48,55,32,116,114,97,99,107>>

\* C1, as claimed: an untitled track below the root folder gets its file's
\* base name (last path element only) without extension as Title; a titled
\* track keeps its title tag.
C1_TitleIsBaseName ==
    \A i \in 1..Len(tracks) :
        LET t == tracks[i] IN
        UnderRoot(t.md.filePath) =>
            t.mf.Title = IF t.md.title = <<>>
                         THEN TrimSuffix(BaseName(t.md.filePath),
                                         Ext(BaseName(t.md.filePath)))
                         ELSE t.md.title

\* C1, as amended: an untitled track below the root folder gets as Title its
\* path relative to the root folder (sub-directories included) without the
\* extension of the file name, which for a file directly in the root folder
\* is the base name without extension; a titled track keeps its title tag.
C1_TitleIsRelativePath ==
    \A i \in 1..Len(tracks) :
        LET t == tracks[i] IN
        UnderRoot(t.md.filePath) =>
            IF t.md.title = <<>>
            THEN IsWithoutExt(t.mf.Title, RelativeToRoot(t.md.filePath))
            ELSE t.mf.Title = t.md.title

\* C1's case: the untitled "/music/Unknown/07 track.flac" has been mapped,
\* and its title keeps the directory.
C1_Witness ==
    \E i \in 1..Len(tracks) :
        /\ tracks[i].md.title = <<>>
        /\ BaseName(tracks[i].md.filePath) # RelativeToRoot(tracks[i].md.filePath)
        /\ UnderRoot(tracks[i].md.filePath)
        /\ tracks[i].mf.Title = UnknownSlash07Track

\* C2, as claimed: two tracks whose album-artist tags and whose album tags are
\* equal up to letter case get the same AlbumID and the same ArtistID.
C2_SameTagsSameIds ==
    Len(tracks) = 2 =>
        LET a == tracks[1]  b == tracks[2] IN
        (/\ ToLower(a.md.albumArtist) = ToLower(b.md.albumArtist)
         /\ ToLower(a.md.album) = ToLower(b.md.album))
            => a.mf.AlbumID = b.mf.AlbumID /\ a.mf.ArtistID = b.mf.ArtistID

\* C2, as amended: two tracks, at whatever paths, whose resolved album-artist
\* names and resolved album names are equal up to letter case get the same
\* AlbumID and AlbumArtistID, and two tracks whose resolved artist names are
\* equal up to letter case get the same ArtistID.
C2_SameNamesSameIds ==
    Len(tracks) = 2 =>
        LET a == tracks[1]  b == tracks[2] IN
        /\ (/\ ToLower(a.mf.AlbumArtist) = ToLower(b.mf.AlbumArtist)
            /\ ToLower(a.mf.Album) = ToLower(b.mf.Album))
               => /\ a.mf.AlbumID = b.mf.AlbumID
                  /\ a.mf.AlbumArtistID = b.mf.AlbumArtistID
        /\ ToLower(a.mf.Artist) = ToLower(b.mf.Artist)
               => a.mf.ArtistID = b.mf.ArtistID

\* C2's case: "Pink Floyd"/"The Wall" and "PINK FLOYD"/"the wall" in two
\* directories have been mapped to one album.
C2_Witness ==
    /\ Len(tracks) = 2
    /\ tracks[1].md.filePath # tracks[2].md.filePath
    /\ ~tracks[1].md.compilation /\ ~tracks[2].md.compilation
    /\ tracks[1].md.albumArtist # <<>>
    /\ tracks[1].md.albumArtist # tracks[2].md.albumArtist
    /\ tracks[1].md.album # tracks[2].md.album
    /\ ToLower(tracks[1].md.albumArtist) = ToLower(tracks[2].md.albumArtist)
    /\ ToLower(tracks[1].md.album) = ToLower(tracks[2].md.album)
    /\ tracks[1].mf.AlbumID = tracks[2].mf.AlbumID

\* C3: the album-artist name is "Various Artists" for a compilation, else the
\* album-artist tag if non-empty, else the artist tag if non-empty, else
\* "Unknown Artist"; it is never empty, AlbumArtistID is the digest of its
\* lower-cased form, and compilation tracks all share one name and one id.
C3_AlbumArtistResolution ==
    /\ \A i \in 1..Len(tracks) :
          LET md == tracks[i].md  mf == tracks[i].mf IN
          /\ md.compilation => mf.AlbumArtist = VariousArtists
          /\ (~md.compilation /\ md.albumArtist # <<>>)
                => mf.AlbumArtist = md.albumArtist
          /\ (~md.compilation /\ md.albumArtist = <<>> /\ md.artist # <<>>)
                => mf.AlbumArtist = md.artist
          /\ (~md.compilation /\ md.albumArtist = <<>> /\ md.artist = <<>>)
                => mf.AlbumArtist = UnknownArtist
          /\ mf.AlbumArtist # <<>>
          /\ mf.AlbumArtistID = Md5Hex(ToLower(mf.AlbumArtist))
    /\ \A i, j \in 1..Len(tracks) :
          (tracks[i].md.compilation /\ tracks[j].md.compilation)
             => /\ tracks[i].mf.AlbumArtist = tracks[j].mf.AlbumArtist
                /\ tracks[i].mf.AlbumArtistID = tracks[j].mf.AlbumArtistID

\* C3's case: two compilation tracks have been mapped, one carrying both an
\* album-artist and an artist tag, the other carrying neither.
C3_Witness ==
    /\ Len(tracks) = 2
    /\ tracks[1].md.compilation /\ tracks[2].md.compilation
    /\ tracks[1].md.albumArtist # <<>> /\ tracks[1].md.artist # <<>>
    /\ tracks[2].md.albumArtist = <<>> /\ tracks[2].md.artist = <<>>
    /\ tracks[1].mf.AlbumArtist = VariousArtists

(***************************************************************************)
(* The artists the repository stores and reads back                        *)
(***************************************************************************)

\* Most similar artists of one artist.
MaxSimilar == 2
\* Longest stored column generated, in characters.
MaxStoredLen == 5

\* Identifiers: "a1", and two that hold a separator, "a:" and "a;"
SimilarIds == {<<97,49>>, <<97,58>>, <<97,59>>}

\* Names: "", "AC/DC", "a:b", "a;b", "5%", "a b", "%2F", "a+b"
SimilarNames == {<<>>, <<65,67,47,68,67>>, <<97,58,98>>, <<97,59,98>>, <<53,37>>,
                 <<97,32,98>>, <<37,50,70>>, <<97,43,98>>}

RECURSIVE ListsUpTo(_, _)
ListsUpTo(S, n) ==
    IF n = 0 THEN {<<>>}
    ELSE LET shorter == ListsUpTo(S, n - 1)
         IN  shorter \cup {Append(l, x) : l \in shorter, x \in S}

\* Lists of similar artists, and every printable one-character name
SimilarLists ==
    ListsUpTo([ID : SimilarIds, Name : SimilarNames], MaxSimilar)
        \cup {<<[ID |-> <<97,49>>, Name |-> <<c>>]>> : c \in 32..126}

\* Columns found in the table: 'a' ':' ';' '%' '4' '1'
StoredColumns == StringsUpTo({97, Ch.colon, Ch.semi, Ch.percent, 52, 49}, MaxStoredLen)

CodecInit ==
    /\ loaded = <<>>
    /\ \/ /\ codecPc = "model"
          /\ similar \in SimilarLists
          /\ dbSimilar = <<>>
          /\ putByRepo = TRUE
       \/ /\ codecPc = "stored"
          /\ similar = <<>>
          /\ dbSimilar \in StoredColumns
          /\ putByRepo = FALSE

CodecIdle ==
    /\ codecPc = "idle"
    /\ similar = <<>>
    /\ dbSimilar = <<>>
    /\ loaded = <<>>
    /\ putByRepo = FALSE

\* artistRepository.Put: dba := r.fromModel(a); r.put(dba.ID, dba)
Put ==
    /\ codecPc = "model"
    /\ dbSimilar' = fromModel(similar)
    /\ codecPc' = "stored"
    /\ UNCHANGED <<similar, loaded, putByRepo>>
    /\ UNCHANGED notCodec

\* artistRepository.Get: res := r.toModels(dba)
Get ==
    /\ codecPc = "stored"
    /\ loaded' = toModel(dbSimilar)
    /\ codecPc' = "loaded"
    /\ UNCHANGED <<similar, dbSimilar, putByRepo>>
    /\ UNCHANGED notCodec

CodecNext == Put \/ Get

(***************************************************************************)
(* Claims about the similar-artists column                                 *)
(***************************************************************************)

NoSeparator(id) == \A i \in 1..Len(id) : id[i] \notin {Ch.colon, Ch.semi}

Colons(entry) == {i \in 1..Len(entry) : entry[i] = Ch.colon}

FirstColon(entry) == CHOOSE i \in Colons(entry) : \A j \in Colons(entry) : i <= j

\* The pair an entry holding a ':' stands for when cut at its first ':'.
PairAtFirstColon(entry) ==
    [ID |-> SubSeq(entry, 1, FirstColon(entry) - 1),
     Name |-> QueryUnescape(SubSeq(entry, FirstColon(entry) + 1, Len(entry))).val]

HasColon(entry) == Colons(entry) # {}

HasOneColon(entry) == Cardinality(Colons(entry)) = 1

\* C4, as claimed: whatever list of (identifier, name) pairs is stored by Put,
\* Get gives the same list back.
C4_RoundTrip ==
    (codecPc = "loaded" /\ putByRepo) => loaded = similar

\* C4, as amended: a list of (identifier, name) pairs none of whose
\* identifiers holds ':' or ';' is given back by Get as Put stored it, whatever
\* its names hold.
C4_RoundTripPlainIds ==
    (/\ codecPc = "loaded" /\ putByRepo
     /\ \A i \in 1..Len(similar) : NoSeparator(similar[i].ID))
        => loaded = similar

\* C4's case: [{a1, "AC/DC"}, {a1, "a;b"}] went through Put and Get.
C4_Witness ==
    /\ codecPc = "loaded" /\ putByRepo
    /\ similar = <<[ID |-> <<97,49>>, Name |-> <<65,67,47,68,67>>],
                   [ID |-> <<97,49>>, Name |-> <<97,59,98>>]>>
    /\ loaded = similar

\* C5, as claimed: every ';'-separated entry holding at least one ':' yields
\* the pair cut at its first ':', in stored order; the others are dropped.
C5_SplitAtFirstColon ==
    codecPc = "loaded" =>
        LET kept == SelectSeq(Split(dbSimilar, Ch.semi), HasColon)
        IN  loaded = [i \in 1..Len(kept) |-> PairAtFirstColon(kept[i])]

\* C5, as amended: every ';'-separated entry holding exactly one ':' yields
\* the pair (text before the ':', percent-decoded text after it, or "" when
\* that text is no valid percent-encoding), in stored order; an entry with no
\* ':' or with more than one is dropped.
C5_SplitInTwoFields ==
    codecPc = "loaded" =>
        LET kept == SelectSeq(Split(dbSimilar, Ch.semi), HasOneColon)
        IN  loaded = [i \in 1..Len(kept) |-> PairAtFirstColon(kept[i])]

\* C5's case: the column "1;a:a" was read, its first entry dropped and its
\* second decoded to (a, "a").
C5_Witness ==
    /\ codecPc = "loaded" /\ ~putByRepo
    /\ dbSimilar = <<49, Ch.semi, 97, Ch.colon, 97>>
    /\ loaded = <<[ID |-> <<97>>, Name |-> <<97>>]>>

(***************************************************************************)
(* persistence: the artist index                                           *)
(***************************************************************************)

\* a < b for Go strings (byte-wise, a proper prefix first)
StrLess(a, b) ==
    \E k \in 1..(Len(b)) :
        /\ \A i \in 1..(k - 1) : i <= Len(a) /\ a[i] = b[i]
        /\ k - 1 <= Len(a)
        /\ (k = Len(a) + 1 \/ (k <= Len(a) /\ a[k] < b[k]))

\* The elements of a set of strings in ascending order
SortedStrings(S) ==
    CHOOSE q \in [1..Cardinality(S) -> S] :
        \A i, j \in 1..Cardinality(S) : i < j => StrLess(q[i], q[j])

\* "The "
ArticleThe == <<84,104,101,32>>

\* utils.NoArticle: the name without a leading article
NoArticle(name) ==
    IF HasPrefix(ToLower(name), ToLower(ArticleThe))
    THEN SubSeq(name, Len(ArticleThe) + 1, Len(name))
    ELSE name

\* sanitizeFieldForSorting, on names without accents or outer spaces
sanitizeFieldForSorting(originalValue) == NoArticle(originalValue)

\* "#"
CatchAll == <<35>>

\* artistRepository.getIndexKey: the bucket keys the loop over the
\* indexGroups map can return for a name.  The map is ranged over in an order
\* Go leaves unspecified, so any matching prefix may be the one met first.
getIndexKey(groups, a) ==
    LET name == ToLower(NoArticle(a.Name))
        hits == {k \in DOMAIN groups : HasPrefix(name, ToLower(k))}
    IN  IF hits = {} THEN {CatchAll} ELSE {groups[k] : k \in hits}

\* r.GetAll(model.QueryOptions{Sort: "order_artist_name"})
GetAllByOrderName(rows) ==
    CHOOSE q \in [1..Cardinality(rows) -> rows] :
        \A i, j \in 1..Cardinality(rows) :
            i < j => StrLess(q[i].OrderArtistName, q[j].OrderArtistName)

\* The artists of all whose key is id, in the order of all
RECURSIVE ArtistsOfBucket(_, _, _)
ArtistsOfBucket(all, key, id) ==
    IF all = <<>> THEN <<>>
    ELSE (IF key[Head(all)] = id THEN <<Head(all)>> ELSE <<>>)
            \o ArtistsOfBucket(Tail(all), key, id)

\* artistRepository.GetIndex, given the key getIndexKey returned for each
\* artist: one bucket per key, buckets sorted by key.
BuildIndex(all, key) ==
    LET ids == SortedStrings({key[all[i]] : i \in 1..Len(all)})
    IN  [b \in 1..Len(ids) |-> [ID |-> ids[b], Artists |-> ArtistsOfBucket(all, key, ids[b])]]

\* Artists: "Abba", "The Beatles", "Beck", "Zappa"
ArtistNames == {<<65,98,98,97>>, <<84,104,101,32,66,101,97,116,108,101,115>>,
                <<66,101,99,107>>, <<90,97,112,112,97>>}

ArtistRowsOf(names) ==
    {[Name |-> n, OrderArtistName |-> sanitizeFieldForSorting(n)] : n \in names}

\* conf.Server.IndexGroups, parsed: "A B", "A Ab B" and "A-B(AB) Z"
IndexGroupConfigs ==
    {(<<65>> :> <<65>>) @@ (<<66>> :> <<66>>),
     (<<65>> :> <<65>>) @@ (<<65,98>> :> <<65,98>>) @@ (<<66>> :> <<66>>),
     (<<65>> :> <<65,45,66>>) @@ (<<66>> :> <<65,45,66>>) @@ (<<90>> :> <<90>>)}

IndexInit ==
    /\ indexGroups \in IndexGroupConfigs
    /\ artistRows \in {ArtistRowsOf(names) : names \in SUBSET ArtistNames}
    /\ indexes = <<>>

IndexIdle ==
    /\ indexGroups = <<>>
    /\ artistRows = {}
    /\ indexes = <<>>

\* artistRepository.GetIndex
GetIndex ==
    \E key \in [artistRows -> {indexGroups[k] : k \in DOMAIN indexGroups} \cup {CatchAll}] :
        /\ \A a \in artistRows : key[a] \in getIndexKey(indexGroups, a)
        /\ LET result == BuildIndex(GetAllByOrderName(artistRows), key)
           IN  indexes' = IF Len(indexes) = 2 THEN <<indexes[2], result>>
                          ELSE Append(indexes, result)
        /\ UNCHANGED <<indexGroups, artistRows>>
    /\ UNCHANGED notIndex

IndexNext == GetIndex

(***************************************************************************)
(* Claims about the artist index                                           *)
(***************************************************************************)

\* C6: for fixed artist rows and fixed index groups, every call of GetIndex
\* returns the same buckets in the same order with the same artists in each.
C6_GetIndexDeterministic ==
    Len(indexes) = 2 => indexes[1] = indexes[2]

(***************************************************************************)
(* cmd: the scan command                                                   *)
(***************************************************************************)

\* Scan commands run one after the other.
MaxScanRuns == 3

ScanInit ==
    /\ fullRescan = FALSE
    /\ scanPc = "shell"
    /\ rescanErr = FALSE
    /\ scanLog = <<>>
    /\ scanRuns = <<>>

ScanIdle ==
    /\ fullRescan = FALSE
    /\ scanPc = "idle"
    /\ rescanErr = FALSE
    /\ scanLog = <<>>
    /\ scanRuns = <<>>

\* "navidrome scan [--full]": scanCmd.Run calls runScanner
ScanCommand ==
    /\ scanPc = "shell"
    /\ Len(scanRuns) < MaxScanRuns
    /\ fullRescan' \in BOOLEAN
    /\ scanPc' = "runScanner"
    /\ rescanErr' = FALSE
    /\ scanLog' = <<>>
    /\ UNCHANGED scanRuns
    /\ UNCHANGED notScan

\* runScanner: _ = scanner.RescanAll(fullRescan).  The scanner returns an
\* error or nil; the error is assigned to the blank identifier.
RescanAll ==
    /\ scanPc = "runScanner"
    /\ rescanErr' \in BOOLEAN
    /\ scanPc' = "rescanned"
    /\ UNCHANGED <<fullRescan, scanLog, scanRuns>>
    /\ UNCHANGED notScan

\* runScanner: the closing log.Info
LogFinished ==
    /\ scanPc = "rescanned"
    /\ scanLog' = Append(scanLog, IF fullRescan THEN "Finished full rescan"
                                  ELSE "Finished rescan")
    /\ scanPc' = "returned"
    /\ UNCHANGED <<fullRescan, rescanErr, scanRuns>>
    /\ UNCHANGED notScan

\* scanCmd.Run returns: cobra's Run has no error result, and nothing in
\* runScanner exits or logs a failure, so the command ends reporting success.
ScanExit ==
    /\ scanPc = "returned"
    /\ scanRuns' = Append(scanRuns, [full |-> fullRescan, err |-> rescanErr,
                                     log |-> scanLog, failed |-> FALSE])
    /\ scanPc' = "shell"
    /\ UNCHANGED <<fullRescan, rescanErr, scanLog>>
    /\ UNCHANGED notScan

ScanNext == ScanCommand \/ RescanAll \/ LogFinished \/ ScanExit

(***************************************************************************)
(* Claims about the scan command                                           *)
(***************************************************************************)

FinishedLines == {"Finished rescan", "Finished full rescan"}

\* C9: a scan command whose RescanAll returned an error reports failure, and
\* it logs 'Finished rescan' / 'Finished full rescan' only when RescanAll
\* returned no error.
C9_ScanReportsOutcome ==
    \A i \in 1..Len(scanRuns) :
        LET run == scanRuns[i] IN
        /\ run.err => run.failed
        /\ (\E l \in 1..Len(run.log) : run.log[l] \in FinishedLines) => ~run.err

(***************************************************************************)
(* db/migration: notice and the run-once readiness check                   *)
(***************************************************************************)

\* Calls of notice in one process (one per migration that has something to say).
MaxNotices == 5

NoticeMessages == {"breaking change", "full rescan forced"}

MigrationInit ==
    /\ once = FALSE
    /\ setupDone \in BOOLEAN
    /\ migrationPc = "running"
    /\ calls = <<>>
    /\ notices = <<>>
    /\ printed = <<>>

MigrationIdle ==
    /\ once = FALSE
    /\ setupDone = FALSE
    /\ migrationPc = "idle"
    /\ calls = <<>>
    /\ notices = <<>>
    /\ printed = <<>>

\* isDBInitialized: the named result starts false and is set only inside
\* once.Do's function, which runs on the first call alone.
isDBInitialized(onceRan, count) == IF onceRan THEN FALSE ELSE count > 0

\* notice(tx, msg), the query of isDBInitialized succeeding (or not made)
Notice ==
    \E msg \in NoticeMessages :
        /\ migrationPc = "running"
        /\ Len(notices) < MaxNotices
        /\ LET initialized == isDBInitialized(once, IF setupDone THEN 1 ELSE 0) IN
           /\ calls' = Append(calls, initialized)
           /\ printed' = IF initialized THEN Append(printed, msg) ELSE printed
        /\ notices' = Append(notices, msg)
        /\ once' = TRUE
        /\ UNCHANGED <<setupDone, migrationPc>>
    /\ UNCHANGED notMigration

\* notice(tx, msg), tx.Query failing on the first call: checkErr panics inside
\* once.Do, which still counts as having run.
NoticePanics ==
    \E msg \in NoticeMessages :
        /\ migrationPc = "running"
        /\ Len(notices) < MaxNotices
        /\ ~once
        /\ once' = TRUE
        /\ migrationPc' = "panicked"
        /\ notices' = Append(notices, msg)
        /\ UNCHANGED <<setupDone, calls, printed>>
    /\ UNCHANGED notMigration

MigrationNext == Notice \/ NoticePanics

(***************************************************************************)
(* Claims about the migration helpers                                      *)
(***************************************************************************)

\* C10: every call of isDBInitialized after the first returns what the first
\* returned, so that with the database initialized every notice is printed.
C10_ReadinessMemoized ==
    /\ \A i \in 1..Len(calls) : calls[i] = calls[1]
    /\ (setupDone /\ migrationPc = "running") => printed = notices

(***************************************************************************)
(* persistence: Refresh and purgeEmpty on the artist table                 *)
(***************************************************************************)

\* Refresh(ids...): chunks := utils.BreakUpStringSlice(ids, 100)
ChunkSize == 100

\* Full chunks in the longest list of ids given to Refresh (one more id
\* follows them).
MaxChunks == 2

MaxIds == MaxChunks * ChunkSize + 1

Min(a, b) == IF a < b THEN a ELSE b

\* utils.BreakUpStringSlice(items, chunkSize): consecutive pieces of
\* chunkSize items, the last one shorter when the items do not divide.
BreakUpStringSlice(items, chunkSize) ==
    [k \in 1..((Len(items) + chunkSize - 1) \div chunkSize) |->
        SubSeq(items, (k - 1) * chunkSize + 1, Min(k * chunkSize, Len(items)))]

\* count(*) ... from album f where f.album_artist_id = id
AlbumCount(albums, id) == Cardinality({f \in albums : f.album_artist_id = id})

\* The artist rows of refresh's query: one per album_artist_id among ids
\* (group by f.album_artist_id).
RefreshRows(albums, ids) ==
    {id \in {ids[i] : i \in 1..Len(ids)} : AlbumCount(albums, id) > 0}

\* r.Put(&ar.Artist) for each artist of S: insert or update the row
PutAll(table, albums, S) ==
    [id \in DOMAIN table \cup S |->
        IF id \in S THEN [album_count |-> AlbumCount(albums, id)] ELSE table[id]]

\* artistRepository.refresh(ids...): what it can return, with the table it
\* leaves.  queryAll fails and nothing is written; or a Put fails after the
\* Puts before it (the rows come in the order of an album id SQL picks per
\* group, so any of the other rows may have been among them); or all rows
\* are Put.
refresh(table, albums, ids) ==
    LET rows == RefreshRows(albums, ids) IN
    {[err |-> FALSE, artist |-> PutAll(table, albums, rows)],
     [err |-> TRUE, artist |-> table]}
        \cup {[err |-> TRUE, artist |-> PutAll(table, albums, S)] :
                S \in UNION {SUBSET (rows \ {f}) : f \in rows}}

\* A plausible slip: the loop goes on to the next chunk after an error.
RefreshLoopIgnoresError(err, k, nChunks) ==
    IF k = nChunks THEN "returned" ELSE "chunks"

\* artistRepository.Refresh, its loop after refresh(chunk k) returned err:
\* "if err != nil { return err }", else on to the next chunk, if any.
RefreshLoop(err, k, nChunks) ==
    IF err THEN "returned"
    ELSE IF k = nChunks THEN "returned" ELSE "chunks"

\* A plausible slip: the rows that are referenced are the ones deleted.
purgeEmptyInverted(table, albums) ==
    [id \in {a \in DOMAIN table : a \notin {f.album_artist_id : f \in albums}} |-> table[id]]

\* artistRepository.purgeEmpty:
\* delete from artist where id not in (select distinct(album_artist_id) from album)
purgeEmpty(table, albums) ==
    [id \in {a \in DOMAIN table : a \in {f.album_artist_id : f \in albums}} |-> table[id]]

\* Artists at the start of the first, second and third chunk of MaxIds ids
ProbeIds == {1, ChunkSize + 1, 2 * ChunkSize + 1}

\* One album per artist of A, and a second album of artist 1
AlbumsOf(A) ==
    {[id |-> a, album_artist_id |-> a] : a \in A}
        \cup {[id |-> 0, album_artist_id |-> a] : a \in A \cap {1}}

StoreInit ==
    /\ album \in {AlbumsOf(A) : A \in SUBSET ProbeIds}
    /\ artist \in {[id \in R |-> [album_count |-> 0]] : R \in SUBSET ProbeIds}
    /\ refreshPc = "idle"
    /\ refreshIds = <<>>
    /\ chunkNo = 0
    /\ attempted = <<>>
    /\ refreshErr = FALSE
    /\ failedChunk = 0
    /\ committed = {}
    /\ lastOp = "none"
    /\ purgeErr = FALSE
    /\ beforePurge = artist

StoreIdle ==
    /\ album = {}
    /\ artist = <<>>
    /\ refreshPc = "off"
    /\ refreshIds = <<>>
    /\ chunkNo = 0
    /\ attempted = <<>>
    /\ refreshErr = FALSE
    /\ failedChunk = 0
    /\ committed = {}
    /\ lastOp = "none"
    /\ purgeErr = FALSE
    /\ beforePurge = <<>>

\* Refresh(ids...) is called: the ids are broken up; with no chunk the loop
\* is skipped and nil returned.
RefreshCall ==
    \E n \in 0..MaxIds :
        /\ refreshPc = "idle"
        /\ refreshIds' = [i \in 1..n |-> i]
        /\ refreshPc' = IF BreakUpStringSlice(refreshIds', ChunkSize) = <<>>
                        THEN "returned" ELSE "chunks"
        /\ chunkNo' = 1
        /\ lastOp' = IF refreshPc' = "returned" THEN "Refresh" ELSE lastOp
        /\ UNCHANGED <<attempted, refreshErr, failedChunk, committed>>
        /\ UNCHANGED <<album, artist, purgeErr, beforePurge>>
    /\ UNCHANGED notStore

\* One turn of Refresh's loop: err := r.refresh(chunk...)
RefreshChunk ==
    /\ refreshPc = "chunks"
    /\ LET chunks == BreakUpStringSlice(refreshIds, ChunkSize)
           chunk == chunks[chunkNo]
       IN  \E out \in refresh(artist, album, chunk) :
              /\ artist' = out.artist
              /\ attempted' = Append(attempted, chunk)
              /\ refreshErr' = out.err
              /\ failedChunk' = IF out.err THEN chunkNo ELSE failedChunk
              /\ committed' = IF out.err THEN committed
                              ELSE committed \cup RefreshRows(album, chunk)
              /\ refreshPc' = RefreshLoop(out.err, chunkNo, Len(chunks))
              /\ chunkNo' = chunkNo + 1
              /\ lastOp' = IF refreshPc' = "returned" THEN "Refresh" ELSE "refresh"
    /\ UNCHANGED <<album, refreshIds, purgeErr, beforePurge>>
    /\ UNCHANGED notStore

\* purgeEmpty(): c, err := r.executeSQL(del); the statement fails and
\* deletes nothing, or deletes its rows.
PurgeEmpty ==
    \E err \in BOOLEAN :
        /\ beforePurge' = artist
        /\ artist' = IF err THEN artist ELSE purgeEmpty(artist, album)
        /\ purgeErr' = err
        /\ lastOp' = "purgeEmpty"
        /\ UNCHANGED <<album, refreshVars>>
    /\ UNCHANGED notStore

StoreNext == RefreshCall \/ RefreshChunk \/ PurgeEmpty

(***************************************************************************)
(* Claims about the artist table                                           *)
(***************************************************************************)

Referenced(id) == \E f \in album : f.album_artist_id = id

\* C7: after purgeEmpty returned no error, the artist table holds exactly the
\* rows it held before whose id is the album_artist_id of some album, each
\* unchanged.
C7_PurgeKeepsReferenced ==
    (lastOp = "purgeEmpty" /\ ~purgeErr) =>
        /\ DOMAIN artist = {id \in DOMAIN beforePurge : Referenced(id)}
        /\ \A id \in DOMAIN artist : artist[id] = beforePurge[id]

\* C7's case: purgeEmpty deleted an artist no album refers to and kept one
\* that an album refers to.
C7_Witness ==
    /\ lastOp = "purgeEmpty" /\ ~purgeErr
    /\ \E id \in DOMAIN beforePurge : ~Referenced(id)
    /\ \E id \in DOMAIN artist : Referenced(id)

\* C8: Refresh hands refresh the consecutive chunks of at most ChunkSize ids,
\* in input order; once a chunk fails Refresh has returned that error and no
\* later chunk is attempted, while what the chunks before it Put stays in
\* the table; with no failure every chunk is attempted once and Refresh
\* returns no error.
C8_RefreshChunks ==
    LET n == Len(refreshIds)
        nChunks == (n + ChunkSize - 1) \div ChunkSize
    IN  /\ Len(attempted) <= nChunks
        /\ \A k \in 1..Len(attempted) :
              /\ attempted[k] = SubSeq(refreshIds, (k - 1) * ChunkSize + 1,
                                       Min(k * ChunkSize, n))
              /\ Len(attempted[k]) \in 1..ChunkSize
        /\ failedChunk # 0 =>
              /\ refreshPc = "returned" /\ refreshErr
              /\ Len(attempted) = failedChunk
        /\ \A id \in committed :
              /\ id \in DOMAIN artist
              /\ artist[id] = [album_count |-> AlbumCount(album, id)]
        /\ (refreshPc = "returned" /\ failedChunk = 0) =>
              /\ ~refreshErr
              /\ Len(attempted) = nChunks

\* C8's case: of three chunks the first was refreshed and Put an artist, the
\* second failed, and Refresh returned.
C8_Witness ==
    /\ refreshPc = "returned" /\ refreshErr
    /\ Len(refreshIds) = 2 * ChunkSize + 1
    /\ failedChunk = 2
    /\ committed # {}

(***************************************************************************)
(* Specifications: one per component, the other components at rest         *)
(***************************************************************************)

vars == <<mapperVars, codecVars, indexVars, scanVars, migrationVars, storeVars>>

InitMapper ==
    MapperInit /\ CodecIdle /\ IndexIdle /\ ScanIdle /\ MigrationIdle /\ StoreIdle
InitCodec ==
    MapperIdle /\ CodecInit /\ IndexIdle /\ ScanIdle /\ MigrationIdle /\ StoreIdle
InitIndex ==
    MapperIdle /\ CodecIdle /\ IndexInit /\ ScanIdle /\ MigrationIdle /\ StoreIdle
InitScan ==
    MapperIdle /\ CodecIdle /\ IndexIdle /\ ScanInit /\ MigrationIdle /\ StoreIdle
InitMigration ==
    MapperIdle /\ CodecIdle /\ IndexIdle /\ ScanIdle /\ MigrationInit /\ StoreIdle
InitStore ==
    MapperIdle /\ CodecIdle /\ IndexIdle /\ ScanIdle /\ MigrationIdle /\ StoreInit

SpecMapper == InitMapper /\ [][MapperNext]_vars
SpecCodec == InitCodec /\ [][CodecNext]_vars
SpecIndex == InitIndex /\ [][IndexNext]_vars
SpecScan == InitScan /\ [][ScanNext]_vars
SpecMigration == InitMigration /\ [][MigrationNext]_vars
SpecStore == InitStore /\ [][StoreNext]_vars

====
